---------------------------- MODULE Spec2Model ----------------------------
(***************************************************************************)
(* Model of Software_ADQ-4IN.py: triggered acquisition on a Red Pitaya     *)
(* with up to four channels, stored in rotating HDF5 files.                *)
(*                                                                         *)
(* The script is one sequential flow.  pc is the position in the script;   *)
(* each action is one statement (or one group of adjacent statements) of   *)
(* the script.  Operator input is drawn from small sets at the statement   *)
(* that reads it.                                                          *)
(*                                                                         *)
(* Number representation (TLC integers are 32 bit):                        *)
(*  - sizes in KB that the script computes in floating point are kept as   *)
(*    exact rationals with denominator KbScale = 76800 (= 300 * 256):      *)
(*    2.68, 1.59, 5.10, 2.30 and their thirds are multiples of 1/300, the  *)
(*    payload channels*samples*4/1024 is a multiple of 1/256;              *)
(*  - file_threshold_bytes = 0.02 * 1024 * 1024 = 20971.52 is kept in      *)
(*    hundredths of a byte;                                                *)
(*  - free space is kept in bytes (get_free_space_mb divides by 2^20);     *)
(*  - times are small integers, not nanoseconds since the epoch.           *)
(***************************************************************************)
EXTENDS Integers, Sequences, FiniteSets, TLC

VARIABLES
    pc,                  \* position in the script
    outcome,             \* "running" | "completed" | "exit" | "exception"
    ioFault,             \* history: a library call raised for an external reason
    set_time,            \* the datetime chosen at lines 274-279
    sys_time_ns,         \* line 280
    set_time_ns,         \* line 281
    day_time_of_first_pulse, \* line 284
    rpState,             \* "uninit" | "init" | "released"
    acq,                 \* "idle" | "started" | "armed" | "triggered" | "stopped"
    nStart,              \* history: number of rp_AcqStart calls
    nStop,               \* history: number of rp_AcqStop calls
    trig_lvl,            \* line 302 (hundredths of a volt)
    samples,             \* line 304
    samples_delay,       \* line 306
    channels_to_acquire, \* line 311
    num_channels,        \* line 314
    free_space,          \* get_free_space_mb's statvfs reading, in bytes
    requested,           \* history: the event count the operator asked for
    max_events,          \* history: get_max_events' max_events
    num_events,          \* line 315
    current_file_size,   \* lines 337, 394, 402
    file_index,          \* lines 338, 381
    current_filename,    \* lines 339, 382
    h5file,              \* "none" | "open" | "closed": the handle h5file
    files,               \* the files on disk, in creation order
    trigger_times,       \* line 355
    event,               \* the loop variable of line 359
    clock,               \* the system clock read by time.time_ns()
    trigger_time_ns,     \* line 366
    data,                \* line 373: dataset name -> extracted window
    lastRead,            \* history: the index range the last read touched
    event_size_bytes,    \* line 378
    chIdx,               \* position of the loop of lines 399-400
    cycle,               \* history: the steps of the current loop iteration
    report               \* "none" | "elapsed" | "no_triggers" (lines 410-414)

vars == << pc, outcome, ioFault, set_time, sys_time_ns, set_time_ns,
           day_time_of_first_pulse, rpState, acq, nStart, nStop, trig_lvl,
           samples, samples_delay, channels_to_acquire, num_channels,
           free_space, requested, max_events, num_events, current_file_size,
           file_index, current_filename, h5file, files, trigger_times, event,
           clock, trigger_time_ns, data, lastRead, event_size_bytes, chIdx,
           cycle, report >>

\* Groups of variables an action leaves alone.
timeVars   == << set_time, sys_time_ns, set_time_ns, day_time_of_first_pulse >>
devVars    == << rpState, acq, nStart, nStop >>
paramVars  == << trig_lvl, samples, samples_delay >>
chanVars   == << channels_to_acquire, num_channels >>
budgetVars == << free_space, requested, max_events, num_events >>
fileVars   == << current_file_size, file_index, current_filename, h5file, files >>
loopVars   == << trigger_times, event, clock, trigger_time_ns, data, lastRead,
                 event_size_bytes, chIdx, cycle >>

-----------------------------------------------------------------------------
(* Bounds of the model and the operator's inputs.                          *)

\* The operator types at most this many channel tokens.
MaxTokens == 3
\* The system clock advances by 0 or 1 per trigger, up to this value.
MaxClock == 2

\* A token of the channel prompt: a non-negative number is a digit string,
\* a negative one stands for a token str.isdigit() rejects ("-1", "a").
Tokens == {-1, 1, 2, 5}

\* What the operator can answer to a numeric prompt: <<>> is Enter (or text
\* the cast rejects), <<v>> is the number v.
SamplesInputs == { <<>>, <<-1>>, <<0>>, <<1000>>, <<6000>> }
DelayInputs   == { <<>>, <<8193>> }
TrigLvlInputs == { <<>> }
EventsInputs  == { <<>>, <<-1>>, <<0>>, <<3>> }

\* statvfs: f_frsize and the values of f_bavail.  51200 blocks of 4096 bytes
\* are exactly 200 MB.
Frsizes == {4096}
Bavails == {51200, 51201, 51205}

\* The datetimes the session can start at (system time or custom time).
SystemTime == [day |-> 5, month |-> 11, year |-> 2025, hour |-> 9, minute |-> 7]
CustomTimes == { [day |-> 24, month |-> 3, year |-> 2025, hour |-> 18, minute |-> 30] }
SetTimes == { SystemTime } \cup CustomTimes

-----------------------------------------------------------------------------
(* Pure helpers.                                                           *)

Min(a, b) == IF a <= b THEN a ELSE b

\* Decimal digits of n >= 0, most significant first.
RECURSIVE Digits(_)
Digits(n) == IF n < 10 THEN << n >> ELSE Append(Digits(n \div 10), n % 10)

\* Python's {n:0wd} for n >= 0: zero-padded to at least w digits.
RECURSIVE ZeroPad(_, _)
ZeroPad(s, w) == IF Len(s) >= w THEN s ELSE ZeroPad(<< 0 >> \o s, w)

Format0d(n, w) == ZeroPad(Digits(n), w)

\* set_time.strftime('%d%m%Y_%H%M')
strftime(t) == Format0d(t.day, 2) \o Format0d(t.month, 2) \o Format0d(t.year, 4)
               \o << "_" >> \o Format0d(t.hour, 2) \o Format0d(t.minute, 2)

\* datetime.timestamp(): an increasing function of the datetime (minutes
\* since the first of January of year 2025, 31-day months).
timestamp(t) == ((((t.year - 2025) * 12 + (t.month - 1)) * 31 + (t.day - 1)) * 24
                 + t.hour) * 60 + t.minute

\* get_user_input(prompt, default_value, cast_type)
get_user_input(inp, default_value) ==
    IF inp = << >> THEN default_value ELSE inp[1]

available_channels == << 1, 2, 3, 4 >>

isdigit(tok) == tok >= 0
InSeq(x, s) == \E i \in 1..Len(s) : s[i] = x

\* select_channels(available_channels), on the token list the operator typed
select_channels(user_input) ==
    IF user_input = << >> THEN available_channels
    ELSE LET digits   == SelectSeq(user_input, isdigit)
             IsAvail(ch) == InSeq(ch, available_channels)
             channels == SelectSeq(digits, IsAvail)
         IN  IF channels # << >> THEN channels ELSE available_channels

RECURSIVE SeqsUpTo(_, _)
SeqsUpTo(S, n) ==
    IF n = 0 THEN { << >> }
    ELSE LET shorter == SeqsUpTo(S, n - 1)
         IN  shorter \cup { Append(s, x) : s \in shorter, x \in S }

ChannelInputs == SeqsUpTo(Tokens, MaxTokens)

-----------------------------------------------------------------------------
(* The storage budget estimator.                                           *)

KbScale == 300 * 256

\* interpolate_params(channels), both results times 300
interpolate_F(channels) ==
    IF channels <= 1 THEN 268 * 3
    ELSE IF channels >= 4 THEN 510 * 3
    ELSE 268 * 3 + (510 - 268) * (channels - 1)

interpolate_P(channels) ==
    IF channels <= 1 THEN 159 * 3
    ELSE IF channels >= 4 THEN 230 * 3
    ELSE 159 * 3 + (230 - 159) * (channels - 1)

\* estimate_file_size(channels, samples, events), in 1/KbScale KB
estimate_file_size(channels, smp, events) ==
    LET data_payload == 300 * channels * smp   \* channels*samples*4/1024 KB
        F == 256 * interpolate_F(channels)
        P == 256 * interpolate_P(channels)
    IN  F + (events - 1) * (data_payload + P)

\* available_space_kb of get_max_events, in 1/KbScale KB:
\* (free/2^20 - 200) * 1024 KB = (free - 200 * 2^20) / 1024 KB
available_space_kb(free) == (free - 200 * 1024 * 1024) * (KbScale \div 1024)

\* max_events of get_max_events: int(available_space_kb // per_event_size),
\* computed on the exact values (the script rounds to binary floating point)
compute_max_events(smp, channels, free) ==
    LET per_event_size == estimate_file_size(channels, smp, 1)
    IN  available_space_kb(free) \div per_event_size

-----------------------------------------------------------------------------
(* Acquisition constants and the file store.                               *)

\* line 292: dec = rp.RP_DEC_1; line 293: trig_dly = 0; line 295: N = 16384
dec == 1
trig_dly == 0
N == 16384

\* line 318: fs = 125e6 / dec, in Hz
fs == 125000000 \div dec

\* line 336: file_threshold_bytes = 0.02 * 1024 * 1024, in hundredths of a byte
file_threshold_bytes == 2 * 1024 * 1024

\* Variant of the check of line 379 that looks at the size already written
\* only (rotation after the threshold was crossed).
NeedsRotation_retroactive(size, ev_size) == size * 100 > file_threshold_bytes

\* Variant of the check of line 379 that counts samples, not bytes.
NeedsRotation_in_samples(size, ev_size) ==
    (size + ev_size \div 4) * 100 > file_threshold_bytes

\* line 379: current_file_size + event_size_bytes > file_threshold_bytes
NeedsRotation(size, ev_size) == (size + ev_size) * 100 > file_threshold_bytes

\* generar_nombre_archivo(file_index): f"{file_index:04d}_Data_{...}.h5"
generar_nombre_archivo(idx) ==
    [ index |-> Format0d(idx, 4), stamp |-> day_time_of_first_pulse ]

\* Variant of the group name that numbers the events of each file from 1.
event_group_name_per_file(ev) ==
    << "event" >> \o Format0d(Len(files[Len(files)].groups) + 1, 6)

\* f"event_{event+1:06d}" of line 397
event_group_name(ev) == << "event" >> \o Format0d(ev + 1, 6)

\* f"channel_{ch}" of lines 376 and 400
channel_name(ch) == << "channel", ch >>

\* Variant of the metadata that stores the events still to capture.
SessionMetadata_remaining ==
    [ set_time          |-> set_time_ns,
      sys_time          |-> sys_time_ns,
      decimation        |-> dec,
      trigger_level     |-> trig_lvl,
      trigger_delay     |-> trig_dly,
      samples_per_event |-> samples,
      samples_delay     |-> samples_delay,
      channels          |-> channels_to_acquire,
      num_events        |-> num_events - event,
      sampling_rate     |-> fs ]

\* The ten attributes of lines 343-352 and 384-393.
SessionMetadata ==
    [ set_time          |-> set_time_ns,
      sys_time          |-> sys_time_ns,
      decimation        |-> dec,
      trigger_level     |-> trig_lvl,
      trigger_delay     |-> trig_dly,
      samples_per_event |-> samples,
      samples_delay     |-> samples_delay,
      channels          |-> channels_to_acquire,
      num_events        |-> num_events,
      sampling_rate     |-> fs ]

FileIdx(fs_, name) == CHOOSE i \in 1..Len(fs_) : fs_[i].name = name
FileExists(fs_, name) == \E i \in 1..Len(fs_) : fs_[i].name = name

\* h5py.File(name, "w") followed by the attribute writes: mode "w" creates
\* the file, truncating a file of that name if there is one.
CreateFile(fs_, name, attrs) ==
    LET fresh == [ name |-> name, attrs |-> attrs, groups |-> << >>, isOpen |-> TRUE ]
    IN  IF FileExists(fs_, name)
        THEN [ fs_ EXCEPT ![FileIdx(fs_, name)] = fresh ]
        ELSE Append(fs_, fresh)

\* h5file.close()
CloseFile(fs_, name) ==
    [ fs_ EXCEPT ![FileIdx(fs_, name)].isOpen = FALSE ]

CurrentFile == files[FileIdx(files, current_filename)]
CurrentGroup == CurrentFile.groups[Len(CurrentFile.groups)]

GroupExists(f, gname) == \E g \in 1..Len(f.groups) : f.groups[g].name = gname
DatasetExists(grp, dname) == \E d \in 1..Len(grp.datasets) : grp.datasets[d].name = dname

\* Index read by fbuffers[ch][i + N//2 - samples_delay] of line 376
WindowIndex(i) == i + N \div 2 - samples_delay

\* All indices of range(samples) fall inside the buffer of N values.
WindowInBuffer == \A i \in 0..(samples - 1) : WindowIndex(i) >= 0 /\ WindowIndex(i) <= N - 1

-----------------------------------------------------------------------------
(* The script.                                                             *)

Init ==
    /\ pc = "init_fpga"
    /\ outcome = "running"
    /\ ioFault = FALSE
    /\ set_time \in SetTimes
    /\ sys_time_ns = timestamp(SystemTime)
    /\ set_time_ns = timestamp(set_time)
    /\ day_time_of_first_pulse = strftime(set_time)
    /\ rpState = "uninit"
    /\ acq = "idle"
    /\ nStart = 0
    /\ nStop = 0
    /\ trig_lvl = 0
    /\ samples = 0
    /\ samples_delay = 0
    /\ channels_to_acquire = << >>
    /\ num_channels = 0
    /\ free_space = 0
    /\ requested = 0
    /\ max_events = 0
    /\ num_events = 0
    /\ current_file_size = 0
    /\ file_index = 0
    /\ current_filename = generar_nombre_archivo(0)
    /\ h5file = "none"
    /\ files = << >>
    /\ trigger_times = << >>
    /\ event = 0
    /\ clock = 0
    /\ trigger_time_ns = 0
    /\ data = << >>
    /\ lastRead = [ first |-> 0, count |-> 0 ]
    /\ event_size_bytes = 0
    /\ chIdx = 0
    /\ cycle = << >>
    /\ report = [ kind |-> "none", elapsed |-> 0 ]

\* An uncaught exception or exit(): the script has no try/finally, nothing
\* after the raising statement runs.
Raise(kind, external) ==
    /\ pc' = "done"
    /\ outcome' = kind
    /\ ioFault' = (ioFault \/ external)

Step(next) ==
    /\ pc' = next
    /\ UNCHANGED << outcome, ioFault >>

\* lines 288-289: fpga = overlay(); rp.rp_Init()
InitFPGA ==
    /\ pc = "init_fpga"
    /\ rpState' = "init"
    /\ Step("params")
    /\ UNCHANGED << timeVars, acq, nStart, nStop, paramVars, chanVars, budgetVars,
                    fileVars, loopVars, report >>

\* lines 302-306: the three get_user_input prompts
ReadParams ==
    /\ pc = "params"
    /\ \E ti \in TrigLvlInputs, si \in SamplesInputs, di \in DelayInputs :
          /\ trig_lvl' = get_user_input(ti, 1)
          /\ samples' = get_user_input(si, 32)
          /\ samples_delay' = get_user_input(di, 8)
    /\ Step("select_channels")
    /\ UNCHANGED << timeVars, devVars, chanVars, budgetVars, fileVars, loopVars, report >>

\* lines 310-314
SelectChannels ==
    /\ pc = "select_channels"
    /\ \E user_input \in ChannelInputs :
          /\ channels_to_acquire' = select_channels(user_input)
          /\ num_channels' = Len(select_channels(user_input))
    /\ Step("get_max_events")
    /\ UNCHANGED << timeVars, devVars, paramVars, budgetVars, fileVars, loopVars, report >>

\* line 315: num_events = get_max_events(samples, num_channels)
GetMaxEvents ==
    /\ pc = "get_max_events"
    /\ \E frsize \in Frsizes, bavail \in Bavails, ui \in EventsInputs :
          LET free == bavail * frsize
              mx   == compute_max_events(samples, num_channels, free)
              req  == get_user_input(ui, 10)
          IN  /\ free_space' = free
              /\ IF available_space_kb(free) <= 0
                 THEN /\ Raise("exit", FALSE)
                      /\ UNCHANGED << requested, max_events, num_events >>
                 ELSE /\ max_events' = mx
                      /\ requested' = req
                      /\ num_events' = Min(req, mx)
                      /\ Step("time_axis")
    /\ UNCHANGED << timeVars, devVars, paramVars, chanVars, fileVars, loopVars, report >>

\* lines 318-320: np.linspace(0, (samples - 1) * dt, samples) raises
\* ValueError for a negative number of samples
TimeAxis ==
    /\ pc = "time_axis"
    /\ IF samples < 0 THEN Raise("exception", FALSE) ELSE Step("open_first")
    /\ UNCHANGED << timeVars, devVars, paramVars, chanVars, budgetVars, fileVars,
                    loopVars, report >>

\* lines 336-355: the first file and its metadata
OpenFirstFile ==
    /\ pc = "open_first"
    /\ current_file_size' = 0
    /\ file_index' = 1
    /\ current_filename' = generar_nombre_archivo(1)
    /\ files' = CreateFile(files, generar_nombre_archivo(1), SessionMetadata)
    /\ h5file' = "open"
    /\ trigger_times' = << >>
    /\ Step("loop")
    /\ UNCHANGED << timeVars, devVars, paramVars, chanVars, budgetVars, event, clock,
                    trigger_time_ns, data, lastRead, event_size_bytes, chIdx, cycle,
                    report >>

\* line 359: for event in range(num_events)
LoopHead ==
    /\ pc = "loop"
    /\ cycle' = << >>
    /\ IF event < num_events THEN Step("acq_start") ELSE Step("finalize")
    /\ UNCHANGED << timeVars, devVars, paramVars, chanVars, budgetVars, fileVars,
                    trigger_times, event, clock, trigger_time_ns, data, lastRead,
                    event_size_bytes, chIdx, report >>

\* line 362: rp.rp_AcqStart()
AcqStart ==
    /\ pc = "acq_start"
    /\ acq' = "started"
    /\ nStart' = nStart + 1
    /\ cycle' = Append(cycle, "AcqStart")
    /\ Step("set_trigger_src")
    /\ UNCHANGED << timeVars, rpState, nStop, paramVars, chanVars, budgetVars, fileVars,
                    trigger_times, event, clock, trigger_time_ns, data, lastRead,
                    event_size_bytes, chIdx, report >>

\* line 363: rp.rp_AcqSetTriggerSrc(acq_trig_sour)
AcqSetTriggerSrc ==
    /\ pc = "set_trigger_src"
    /\ acq' = "armed"
    /\ cycle' = Append(cycle, "AcqSetTriggerSrc")
    /\ Step("wait_trigger")
    /\ UNCHANGED << timeVars, rpState, nStart, nStop, paramVars, chanVars, budgetVars,
                    fileVars, trigger_times, event, clock, trigger_time_ns, data,
                    lastRead, event_size_bytes, chIdx, report >>

\* lines 364-365: the state is not TRIGGERED yet, sleep 1 ms and poll again
PollWaiting ==
    /\ pc = "wait_trigger"
    /\ UNCHANGED vars

\* line 364: rp_AcqGetTriggerState() returns RP_TRIG_STATE_TRIGGERED
TriggerObserved ==
    /\ pc = "wait_trigger"
    /\ acq' = "triggered"
    /\ cycle' = Append(cycle, "triggered")
    /\ Step("timestamp")
    /\ UNCHANGED << timeVars, rpState, nStart, nStop, paramVars, chanVars, budgetVars,
                    fileVars, trigger_times, event, clock, trigger_time_ns, data,
                    lastRead, event_size_bytes, chIdx, report >>

\* lines 366-367: trigger_time_ns = time.time_ns(); trigger_times.append(...)
RecordTimestamp ==
    /\ pc = "timestamp"
    /\ \E d \in 0..1 :
          /\ clock + d <= MaxClock
          /\ clock' = clock + d
          /\ trigger_time_ns' = clock + d
          /\ trigger_times' = Append(trigger_times, clock + d)
    /\ cycle' = Append(cycle, "timestamp")
    /\ Step("read")
    /\ UNCHANGED << timeVars, devVars, paramVars, chanVars, budgetVars, fileVars, event,
                    data, lastRead, event_size_bytes, chIdx, report >>

\* The window line 376 extracts for one channel.  fBuffer does no bounds
\* check: inBuffer = FALSE marks values read outside the N buffer values.
Window == [ first |-> WindowIndex(0), len |-> samples, inBuffer |-> WindowInBuffer ]

\* lines 370-376: read every channel's buffer and extract the window
ReadChannels ==
    /\ pc = "read"
    /\ lastRead' = [ first |-> WindowIndex(0), count |-> samples ]
    /\ data' = [ name \in { channel_name(channels_to_acquire[k]) :
                             k \in 1..Len(channels_to_acquire) } |-> Window ]
    /\ cycle' = Append(cycle, "read")
    /\ Step("rotation_check")
    /\ UNCHANGED << timeVars, devVars, paramVars, chanVars, budgetVars, fileVars,
                    trigger_times, event, clock, trigger_time_ns, event_size_bytes,
                    chIdx, report >>

\* line 376 with an index outside the buffer: the read is undefined, the
\* other outcome is that the process dies in the read.
ReadOutOfBuffer ==
    /\ pc = "read"
    /\ ~WindowInBuffer
    /\ lastRead' = [ first |-> WindowIndex(0), count |-> samples ]
    /\ Raise("exception", FALSE)
    /\ UNCHANGED << timeVars, devVars, paramVars, chanVars, budgetVars, fileVars,
                    trigger_times, event, clock, trigger_time_ns, data,
                    event_size_bytes, chIdx, cycle, report >>

\* lines 378-395: the rotation check and, when it fires, the new file
RotationCheck ==
    /\ pc = "rotation_check"
    /\ event_size_bytes' = samples * num_channels * 4
    /\ IF NeedsRotation(current_file_size, samples * num_channels * 4)
       THEN /\ file_index' = file_index + 1
            /\ current_filename' = generar_nombre_archivo(file_index + 1)
            /\ files' = CreateFile(CloseFile(files, current_filename),
                                   generar_nombre_archivo(file_index + 1),
                                   SessionMetadata)
            /\ current_file_size' = 0
            /\ h5file' = "open"
       ELSE UNCHANGED fileVars
    /\ cycle' = Append(cycle, "rotation_check")
    /\ Step("create_group")
    /\ UNCHANGED << timeVars, devVars, paramVars, chanVars, budgetVars, trigger_times,
                    event, clock, trigger_time_ns, data, lastRead, chIdx, report >>

\* lines 380-383 when h5py.File raises: the old file is closed, no new one
RotationOpenFails ==
    /\ pc = "rotation_check"
    /\ NeedsRotation(current_file_size, samples * num_channels * 4)
    /\ event_size_bytes' = samples * num_channels * 4
    /\ file_index' = file_index + 1
    /\ current_filename' = generar_nombre_archivo(file_index + 1)
    /\ files' = CloseFile(files, current_filename)
    /\ h5file' = "closed"
    /\ Raise("exception", TRUE)
    /\ UNCHANGED << timeVars, devVars, paramVars, chanVars, budgetVars,
                    current_file_size, trigger_times, event, clock, trigger_time_ns,
                    data, lastRead, chIdx, cycle, report >>

\* line 397: group = h5file.create_group(f"event_{event+1:06d}");
\* h5py raises ValueError when the name exists
CreateGroup ==
    /\ pc = "create_group"
    /\ IF GroupExists(CurrentFile, event_group_name(event))
       THEN /\ Raise("exception", FALSE)
            /\ UNCHANGED << files, cycle >>
       ELSE /\ files' = [ files EXCEPT ![FileIdx(files, current_filename)].groups =
                             Append(@, [ name |-> event_group_name(event),
                                         timestamp |-> << >>,
                                         datasets |-> << >> ]) ]
            /\ cycle' = Append(cycle, "create_group")
            /\ Step("set_timestamp")
    /\ UNCHANGED << timeVars, devVars, paramVars, chanVars, budgetVars,
                    current_file_size, file_index, current_filename, h5file,
                    trigger_times, event, clock, trigger_time_ns, data, lastRead,
                    event_size_bytes, chIdx, report >>

\* line 398: group.attrs['timestamp'] = trigger_time_ns
SetTimestamp ==
    /\ pc = "set_timestamp"
    /\ files' = [ files EXCEPT ![FileIdx(files, current_filename)].groups =
                     [ @ EXCEPT ![Len(@)].timestamp = << trigger_time_ns >> ] ]
    /\ chIdx' = 1
    /\ cycle' = Append(cycle, "set_timestamp")
    /\ Step("create_dataset")
    /\ UNCHANGED << timeVars, devVars, paramVars, chanVars, budgetVars,
                    current_file_size, file_index, current_filename, h5file,
                    trigger_times, event, clock, trigger_time_ns, data, lastRead,
                    event_size_bytes, report >>

\* Variant of the loop of lines 399-400 that leaves after the first dataset.
CreateDataset_first_only ==
    /\ pc = "create_dataset"
    /\ LET dname == channel_name(channels_to_acquire[chIdx])
       IN  /\ files' = [ files EXCEPT ![FileIdx(files, current_filename)].groups =
                            [ @ EXCEPT ![Len(@)].datasets =
                                 Append(@, [ name |-> dname,
                                             values |-> data[dname] ]) ] ]
           /\ chIdx' = chIdx + 1
           /\ cycle' = Append(cycle, "create_dataset")
           /\ Step("finish_event")
    /\ UNCHANGED << timeVars, devVars, paramVars, chanVars, budgetVars,
                    current_file_size, file_index, current_filename, h5file,
                    trigger_times, event, clock, trigger_time_ns, data, lastRead,
                    event_size_bytes, report >>

\* lines 399-400, one iteration: group.create_dataset(f"channel_{ch}", ...);
\* h5py raises ValueError when the group already has a dataset of that name
CreateDataset ==
    /\ pc = "create_dataset"
    /\ LET dname == channel_name(channels_to_acquire[chIdx])
       IN  IF DatasetExists(CurrentGroup, dname)
           THEN /\ Raise("exception", FALSE)
                /\ UNCHANGED << files, chIdx, cycle >>
           ELSE /\ files' = [ files EXCEPT ![FileIdx(files, current_filename)].groups =
                                 [ @ EXCEPT ![Len(@)].datasets =
                                      Append(@, [ name |-> dname,
                                                  values |-> data[dname] ]) ] ]
                /\ chIdx' = chIdx + 1
                /\ cycle' = Append(cycle, "create_dataset")
                /\ IF chIdx = Len(channels_to_acquire)
                   THEN Step("finish_event")
                   ELSE Step("create_dataset")
    /\ UNCHANGED << timeVars, devVars, paramVars, chanVars, budgetVars,
                    current_file_size, file_index, current_filename, h5file,
                    trigger_times, event, clock, trigger_time_ns, data, lastRead,
                    event_size_bytes, report >>

\* lines 402-403: current_file_size += event_size_bytes; rp.rp_AcqStop();
\* then the for loop takes the next event
FinishEvent ==
    /\ pc = "finish_event"
    /\ current_file_size' = current_file_size + event_size_bytes
    /\ acq' = "stopped"
    /\ nStop' = nStop + 1
    /\ event' = event + 1
    /\ cycle' = Append(cycle, "AcqStop")
    /\ Step("loop")
    /\ UNCHANGED << timeVars, rpState, nStart, paramVars, chanVars, budgetVars,
                    file_index, current_filename, h5file, files, trigger_times, clock,
                    trigger_time_ns, data, lastRead, event_size_bytes, chIdx, report >>

\* lines 405-406: h5file.close(); rp.rp_Release()
Finalize ==
    /\ pc = "finalize"
    /\ files' = CloseFile(files, current_filename)
    /\ h5file' = "closed"
    /\ rpState' = "released"
    /\ Step("report")
    /\ UNCHANGED << timeVars, acq, nStart, nStop, paramVars, chanVars, budgetVars,
                    current_file_size, file_index, current_filename, loopVars, report >>

\* lines 408-414: the elapsed time between the first and the last trigger
Report ==
    /\ pc = "report"
    /\ report' = IF trigger_times # << >>
                 THEN [ kind |-> "elapsed",
                        elapsed |-> trigger_times[Len(trigger_times)] - trigger_times[1] ]
                 ELSE [ kind |-> "no_triggers", elapsed |-> 0 ]
    /\ pc' = "done"
    /\ outcome' = "completed"
    /\ UNCHANGED << ioFault, timeVars, devVars, paramVars, chanVars, budgetVars,
                    fileVars, loopVars >>

\* The statements whose library call can raise for a reason outside the
\* script: creating the first file (342), arming, polling and reading the
\* device (362-364, 375), writing the group and its datasets (397-400).
FaultPoints == { "open_first", "acq_start", "set_trigger_src", "wait_trigger", "read",
                 "create_group", "set_timestamp", "create_dataset" }

\* The call raises; no handler exists, the script ends there.
LibraryFault ==
    /\ pc \in FaultPoints
    /\ Raise("exception", TRUE)
    /\ UNCHANGED << timeVars, devVars, paramVars, chanVars, budgetVars, fileVars,
                    loopVars, report >>

Next ==
    \/ InitFPGA
    \/ ReadParams
    \/ SelectChannels
    \/ GetMaxEvents
    \/ TimeAxis
    \/ OpenFirstFile
    \/ LoopHead
    \/ AcqStart
    \/ AcqSetTriggerSrc
    \/ PollWaiting
    \/ TriggerObserved
    \/ RecordTimestamp
    \/ ReadChannels
    \/ ReadOutOfBuffer
    \/ RotationCheck
    \/ RotationOpenFails
    \/ CreateGroup
    \/ SetTimestamp
    \/ CreateDataset
    \/ FinishEvent
    \/ Finalize
    \/ Report
    \/ LibraryFault

Spec == Init /\ [][Next]_vars

-----------------------------------------------------------------------------
(* Definitions the properties share.                                       *)

\* The size of one event as line 378 computes it.
EvSize == samples * num_channels * 4

\* The script is past get_max_events and the budget was accepted.
BudgetAccepted ==
    /\ pc \notin { "init_fpga", "params", "select_channels", "get_max_events" }
    /\ outcome # "exit"

\* The names of all event groups on disk, files in creation order and the
\* groups of a file in write order.
RECURSIVE GroupNamesFrom(_)
GroupNamesFrom(i) ==
    IF i > Len(files) THEN << >>
    ELSE [ g \in 1..Len(files[i].groups) |-> files[i].groups[g].name ]
         \o GroupNamesFrom(i + 1)

AllGroupNames == GroupNamesFrom(1)

\* A group with its timestamp and exactly one dataset of `samples` values
\* for every channel of channels_to_acquire, and no other dataset.
GroupComplete(grp) ==
    /\ Len(grp.timestamp) = 1
    /\ \A k \in 1..Len(channels_to_acquire) :
          Cardinality({ d \in 1..Len(grp.datasets) :
                          grp.datasets[d].name = channel_name(channels_to_acquire[k]) }) = 1
    /\ \A d \in 1..Len(grp.datasets) :
          /\ \E k \in 1..Len(channels_to_acquire) :
                grp.datasets[d].name = channel_name(channels_to_acquire[k])
          /\ grp.datasets[d].values.len = samples

AllGroupsComplete ==
    \A i \in 1..Len(files) : \A g \in 1..Len(files[i].groups) :
        GroupComplete(files[i].groups[g])

\* ceil(a / b) for a >= 0, b > 0
CeilDiv(a, b) == (a + b - 1) \div b

\* floor(threshold / event size): the events that fit into one file
EventsPerFile == file_threshold_bytes \div (EvSize * 100)

\* The steps of one loop iteration in the order the claim gives.
CanonicalCycle ==
    << "AcqStart", "AcqSetTriggerSrc", "triggered", "timestamp", "read",
       "rotation_check", "create_group", "set_timestamp" >>
    \o [ k \in 1..num_channels |-> "create_dataset" ]
    \o << "AcqStop" >>

AttributeNames ==
    { "set_time", "sys_time", "decimation", "trigger_level", "trigger_delay",
      "samples_per_event", "samples_delay", "channels", "num_events", "sampling_rate" }

-----------------------------------------------------------------------------
(* C1 *)

\* C1 as stated: current_file_size never exceeds file_threshold_bytes, for
\* every samples and channel count.
C1_Original == current_file_size * 100 <= file_threshold_bytes

\* C1 amended: current_file_size always equals the bytes of the events
\* written to the open file, it never exceeds file_threshold_bytes when one
\* event fits under the threshold, and when one event is larger than the
\* threshold the counter is 0 or exactly that one event.
C1_SizeBounded ==
    /\ (h5file = "open" /\ pc \in { "loop", "acq_start", "finalize" })
          => current_file_size = Len(CurrentFile.groups) * EvSize
    /\ EvSize * 100 <= file_threshold_bytes
          => current_file_size * 100 <= file_threshold_bytes
    /\ EvSize * 100 > file_threshold_bytes
          => current_file_size \in { 0, EvSize }

\* C1 witness: an append that would have crossed the threshold went to a
\* new file, whose counter holds that one event.
C1_Witness ==
    /\ pc = "loop"
    /\ file_index >= 2
    /\ EvSize * 100 <= file_threshold_bytes
    /\ current_file_size = EvSize
    /\ EvSize > 0

(* C2 *)

\* C2: the groups on disk, in write order over all files, are named
\* event_000001, event_000002, ... without gap or reuse; their number is
\* the number of events whose append has started, and all captured events
\* when the run completes.
C2_GlobalSequence ==
    LET names == AllGroupNames
    IN  /\ \A k \in 1..Len(names) :
              /\ names[k] = << "event" >> \o Format0d(k, 6)
              /\ Len(names[k]) = 7
        /\ Len(names) \in { event, event + 1 }
        /\ Len(names) <= Len(trigger_times)
        /\ outcome = "completed" => Len(names) = Len(trigger_times)

\* C2 witness: five events written over three files.
C2_Witness ==
    /\ outcome = "completed"
    /\ Len(files) = 3
    /\ Len(AllGroupNames) = 5
    /\ Len(files[3].groups) = 1

(* C3 *)

\* C3: every file has the ten session attributes with the values of the
\* session, and the i-th file created is named with index i (four digits)
\* and the session's date/time.
C3_SameMetadata ==
    \A i \in 1..Len(files) :
        /\ DOMAIN files[i].attrs = AttributeNames
        /\ files[i].attrs = files[1].attrs
        /\ files[i].attrs.num_events = num_events
        /\ files[i].attrs.channels = channels_to_acquire
        /\ files[i].name.index = Format0d(i, 4)
        /\ files[i].name.stamp = strftime(set_time)
        /\ Len(files[i].name.index) = 4
        /\ h5file = "open" => Len(files) = file_index

\* C3 witness: a third file was opened by a rotation after events were
\* written.
C3_Witness ==
    /\ Len(files) >= 3
    /\ event >= 2
    /\ files[3].isOpen

(* C4 *)

\* C4 as stated: once the budget is accepted (1..4 channels, samples >= 1,
\* free space above the margin), the estimated size of the effective event
\* count does not exceed the available space.
C4_Claim ==
    (/\ BudgetAccepted
     /\ num_channels \in 1..4
     /\ samples >= 1
     /\ available_space_kb(free_space) > 0)
    => estimate_file_size(num_channels, samples, num_events)
          <= available_space_kb(free_space)

(* C5 *)

\* C5 as stated: when the script has ended after rp_Init, the device is
\* released and no output file is left open.
C5_Claim ==
    (pc = "done" /\ rpState # "uninit")
    => /\ rpState = "released"
       /\ h5file # "open"
       /\ \A i \in 1..Len(files) : ~files[i].isOpen

(* C6 *)

\* C6 as stated, for the runs in which no library call fails for an
\* external reason: outside the append of the current event every group on
\* disk is complete.
C6_Claim ==
    (~ioFault /\ pc \notin { "set_timestamp", "create_dataset" })
    => AllGroupsComplete

(* C7 *)

\* C7 as stated: after k events of size s, 0 < s <= t, the run has
\* ceil(k / floor(t / s)) files, for every k.
C7_Original ==
    (/\ pc = "loop"
     /\ EvSize > 0
     /\ EvSize * 100 <= file_threshold_bytes)
    => file_index = CeilDiv(event, EventsPerFile)

\* C7 amended: the formula holds for k >= 1; with k = 0 the run has the one
\* file opened before the loop.  The file index changes in the rotation
\* check exactly when the counter plus the event exceeds the threshold.
C7_FileCount ==
    /\ (pc = "loop" /\ EvSize > 0 /\ EvSize * 100 <= file_threshold_bytes)
          => /\ event >= 1 => /\ file_index = CeilDiv(event, EventsPerFile)
                              /\ Len(files) = file_index
             /\ event = 0 => file_index = 1
    /\ (pc = "create_group" /\ EvSize > 0 /\ EvSize * 100 <= file_threshold_bytes)
          => file_index = CeilDiv(event + 1, EventsPerFile)

\* C7 witness: two events per file (2s <= t < 3s), five events, three files.
C7_Witness ==
    /\ pc = "loop"
    /\ event = 5
    /\ EvSize > 0
    /\ EventsPerFile = 2
    /\ file_index = 3

(* C8 *)

\* C8 as stated, for the runs that pass the budget, get valid numbers
\* (samples >= 0, a request >= 0) and see no external failure: when the
\* script has ended, the triggers recorded and the groups written equal
\* num_events, and with num_events = 0 it reports that no trigger was seen.
C8_Claim ==
    (/\ pc = "done"
     /\ outcome # "exit"
     /\ ~ioFault
     /\ samples >= 0
     /\ requested >= 0)
    => /\ Len(trigger_times) = num_events
       /\ Len(AllGroupNames) = num_events
       /\ num_events = 0 => report.kind = "no_triggers"

(* C9 *)

\* C9: the steps of an iteration come in the order arm, trigger, timestamp,
\* read, rotation check, group, timestamp attribute, datasets, stop; and
\* whenever the device is armed for an event, every earlier event has its
\* complete group on disk and its acquisition was stopped.
C9_Sequential ==
    /\ Len(cycle) <= Len(CanonicalCycle)
    /\ cycle = SubSeq(CanonicalCycle, 1, Len(cycle))
    /\ acq \in { "started", "armed" }
          => /\ nStart = event + 1
             /\ nStop = event
             /\ Len(AllGroupNames) = event
             /\ Len(trigger_times) = event
             /\ AllGroupsComplete
    /\ pc = "loop" /\ event >= 1 => cycle = CanonicalCycle

\* C9 witness: the device is armed for the second event of a two-channel
\* run.
C9_Witness ==
    /\ acq = "armed"
    /\ event = 1
    /\ num_channels = 2
    /\ Len(AllGroupNames) = 1

(* C10 *)

\* C10 as stated: every index a read has used lies in 0..N-1.
C10_Claim ==
    lastRead.count > 0
    => /\ lastRead.first >= 0
       /\ lastRead.first + lastRead.count - 1 <= N - 1

=============================================================================
